---- MODULE Spec2Model ----
(***************************************************************************)
(* Model of scripts/chunk_text/snow_chunk.py: the page-to-chunk merger.    *)
(* Texts and file names are TLA+ strings; a character is a string of       *)
(* length 1.  TLA+ string literals are ASCII only, so the two non-ASCII    *)
(* members of SENTENCE_DELIM (U+061F, U+3002) cannot be written here; the  *)
(* regular expression treats every member of the class alike.              *)
(***************************************************************************)
EXTENDS Integers, Sequences, FiniteSets, TLC

VARIABLES
  pc,            \* position of main(): start, pages, flush, save, write, done, error
  listing,       \* os.listdir(pages_dir): the names, in the order the OS returns them
  files,         \* content of every file of pages_dir, by name
  max_chars,     \* args.max_chars
  md_files,      \* build_chunks: the sorted page names
  page_idx,      \* build_chunks: number of pages the for loop has processed
  chunks,        \* build_chunks: the chunk list
  buffer,        \* build_chunks: the carry buffer
  fed,           \* history: every paragraph handed to the splitter/packer, in order
  pages,         \* history: the raw text of every page read, in order
  out_dir,       \* TRUE once save_chunks has created the output directory
  written,       \* history: the writes of save_chunks, in order
  splitter,      \* frame of a direct call of break_long_paragraph
  segmenter,     \* frame of a direct call of split_paragraphs
  runner,        \* frame of a call of run_chain (scripts/runChain.py)
  translator     \* frame of a call of OllamaTranslator.translate_text

\* the state of main() of snow_chunk.py
chunker == <<pc, listing, files, max_chars, md_files, page_idx, chunks, buffer,
             fed, pages, out_dir, written>>

\* the frames of the functions that are also called on their own
frames == <<splitter, segmenter, runner, translator>>

vars == <<chunker, frames>>

\* a function that has not been called
Idle == [pc |-> "idle"]

FramesIdle ==
  /\ splitter = Idle
  /\ segmenter = Idle
  /\ runner = Idle
  /\ translator = Idle

(***************************************************************************)
(* Bounds of the model.                                                    *)
(***************************************************************************)
MaxPages == 3
MaxFiles == 3
MaxMaxChars == 5
MaxHardLimit == 6
MaxTextLen == 4
MaxSteps == 3
MaxRetries == 3

(***************************************************************************)
(* Characters and the string methods the program uses.                     *)
(***************************************************************************)
Char(s, i) == SubSeq(s, i, i)

\* str.strip()/rstrip() remove these (the ASCII whitespace a TLA+ string can hold)
\* the other ASCII characters str.strip removes: U+000B and U+001C to U+001F,
\* each written here as the character itself
VT == ""
FS == ""
GS == ""
RS == ""
US == ""

WHITESPACE == {" ", "\t", "\n", "\r", "\f", VT, FS, GS, RS, US}

DIGITS == {"0", "1", "2", "3", "4", "5", "6", "7", "8", "9"}

RECURSIVE lstrip(_)
lstrip(s) ==
  IF Len(s) > 0 /\ Char(s, 1) \in WHITESPACE THEN lstrip(Tail(s)) ELSE s

RECURSIVE rstrip(_)
rstrip(s) ==
  IF Len(s) > 0 /\ Char(s, Len(s)) \in WHITESPACE
  THEN rstrip(SubSeq(s, 1, Len(s) - 1))
  ELSE s

strip(s) == lstrip(rstrip(s))

endswith(s, suffix) ==
  Len(s) >= Len(suffix) /\ SubSeq(s, Len(s) - Len(suffix) + 1, Len(s)) = suffix

Last(seq) == seq[Len(seq)]
Front(seq) == SubSeq(seq, 1, Len(seq) - 1)

ASCII_UPPER == "ABCDEFGHIJKLMNOPQRSTUVWXYZ"
ASCII_LOWER == "abcdefghijklmnopqrstuvwxyz"

\* str.lower() on one character
lower_char(c) ==
  IF \E k \in 1..Len(ASCII_UPPER) : Char(ASCII_UPPER, k) = c
  THEN Char(ASCII_LOWER, CHOOSE k \in 1..Len(ASCII_UPPER) : Char(ASCII_UPPER, k) = c)
  ELSE c

RECURSIVE lower(_)
lower(s) == IF s = "" THEN "" ELSE lower_char(Char(s, 1)) \o lower(Tail(s))

\* str.rfind(c): the last index of character c in s, 0 when there is none
RECURSIVE rfind(_, _)
rfind(s, c) ==
  IF s = "" THEN 0
  ELSE IF Char(s, Len(s)) = c THEN Len(s) ELSE rfind(Front(s), c)

(***************************************************************************)
(* natural_sort_key and the sort of build_chunks.                          *)
(***************************************************************************)
\* os.path.splitext(fname)[0]: cut at the last dot, unless only dots precede it
splitext_root(fname) ==
  LET dotIndex == rfind(fname, ".")
  IN  IF dotIndex > 0 /\ \E k \in 1..(dotIndex - 1) : Char(fname, k) # "."
      THEN SubSeq(fname, 1, dotIndex - 1)
      ELSE fname

\* the longest suffix of s made of decimal digits
RECURSIVE trailing_digits(_)
trailing_digits(s) ==
  IF Len(s) > 0 /\ Char(s, Len(s)) \in DIGITS
  THEN trailing_digits(Front(s)) \o Char(s, Len(s))
  ELSE ""

\* re.search(r'\d+$', base).group(), "" when there is no match; `$` matches at
\* the end of the string and also just before a newline that ends the string
search_digits(base) ==
  IF endswith(base, "\n") THEN trailing_digits(Front(base)) ELSE trailing_digits(base)

digit_value(c) == CHOOSE d \in 0..9 : Char("0123456789", d + 1) = c

\* int() of a non-empty string of decimal digits
RECURSIVE int(_)
int(s) ==
  IF Len(s) = 1 THEN digit_value(s)
  ELSE 10 * int(Front(s)) + digit_value(Char(s, Len(s)))

natural_sort_key(fname) ==
  LET base == splitext_root(fname)
      digits == search_digits(base)
  IN  IF digits # "" THEN int(digits) ELSE 0

\* insert_sorted that moves a name before the names of equal key
RECURSIVE insert_sorted_unstable(_, _)
insert_sorted_unstable(sortedNames, name) ==
  IF sortedNames = <<>> THEN <<name>>
  ELSE IF natural_sort_key(Last(sortedNames)) < natural_sort_key(name)
       THEN Append(sortedNames, name)
       ELSE Append(insert_sorted_unstable(Front(sortedNames), name), Last(sortedNames))

\* sorted(names, key=natural_sort_key): stable, equal keys keep their input order
RECURSIVE insert_sorted(_, _)
insert_sorted(sortedNames, name) ==
  IF sortedNames = <<>> THEN <<name>>
  ELSE IF natural_sort_key(Last(sortedNames)) <= natural_sort_key(name)
       THEN Append(sortedNames, name)
       ELSE Append(insert_sorted(Front(sortedNames), name), Last(sortedNames))

RECURSIVE sorted(_)
sorted(names) ==
  IF names = <<>> THEN <<>> ELSE insert_sorted(sorted(Front(names)), Last(names))

\* [f for f in os.listdir(pages_dir) if f.lower().endswith('.md')]
RECURSIVE md_filter(_)
md_filter(names) ==
  IF names = <<>> THEN <<>>
  ELSE IF endswith(lower(Head(names)), ".md")
       THEN <<Head(names)>> \o md_filter(Tail(names))
       ELSE md_filter(Tail(names))

(***************************************************************************)
(* split_paragraphs.                                                       *)
(***************************************************************************)
\* number of consecutive newline characters of s from index i on
RECURSIVE newline_run(_, _)
newline_run(s, i) ==
  IF i <= Len(s) /\ Char(s, i) = "\n" THEN 1 + newline_run(s, i + 1) ELSE 0

\* re.split(r'\n{2,}', text): the pieces between the maximal runs of two or
\* more newlines, empty pieces included; piece is the piece being read
RECURSIVE re_split_blank(_, _, _)
re_split_blank(text, i, piece) ==
  IF i > Len(text) THEN <<piece>>
  ELSE LET run == newline_run(text, i)
       IN  IF run >= 2
           THEN <<piece>> \o re_split_blank(text, i + run, "")
           ELSE re_split_blank(text, i + 1, piece \o Char(text, i))

\* strip_nonempty that keeps the pieces that are empty after the strip
RECURSIVE strip_keep_empty(_)
strip_keep_empty(pieces) ==
  IF pieces = <<>> THEN <<>>
  ELSE <<strip(Head(pieces))>> \o strip_keep_empty(Tail(pieces))

RECURSIVE strip_nonempty(_)
strip_nonempty(pieces) ==
  IF pieces = <<>> THEN <<>>
  ELSE IF strip(Head(pieces)) # ""
       THEN <<strip(Head(pieces))>> \o strip_nonempty(Tail(pieces))
       ELSE strip_nonempty(Tail(pieces))

split_paragraphs(text) == strip_nonempty(re_split_blank(text, 1, ""))

(***************************************************************************)
(* break_long_paragraph.                                                   *)
(***************************************************************************)
\* the ASCII members of the character class [.!?...] of SENTENCE_DELIM
SENTENCE_DELIM == {".", "!", "?"}

\* SENTENCE_DELIM.split(paragraph)
RECURSIVE delim_split(_, _, _)
delim_split(paragraph, i, piece) ==
  IF i > Len(paragraph) THEN <<piece>>
  ELSE IF Char(paragraph, i) \in SENTENCE_DELIM
       THEN <<piece>> \o delim_split(paragraph, i + 1, "")
       ELSE delim_split(paragraph, i + 1, piece \o Char(paragraph, i))

\* SENTENCE_DELIM.findall(paragraph)
RECURSIVE delim_findall(_)
delim_findall(paragraph) ==
  IF paragraph = "" THEN <<>>
  ELSE IF Char(paragraph, 1) \in SENTENCE_DELIM
       THEN <<Char(paragraph, 1)>> \o delim_findall(Tail(paragraph))
       ELSE delim_findall(Tail(paragraph))

\* sentence_parts that puts every ending in front of the sentence after it
RECURSIVE sentence_parts_ending_first(_, _, _)
sentence_parts_ending_first(sentences, endings, i) ==
  IF i > Len(sentences) THEN <<>>
  ELSE LET sent == IF i > 1 /\ i - 1 <= Len(endings)
                   THEN endings[i - 1] \o sentences[i]
                   ELSE sentences[i]
       IN  (IF strip(sent) # "" THEN <<strip(sent)>> ELSE <<>>)
           \o sentence_parts_ending_first(sentences, endings, i + 1)

\* lines 52-57: each sentence with its ending, stripped, empty ones dropped
RECURSIVE sentence_parts(_, _, _)
sentence_parts(sentences, endings, i) ==
  IF i > Len(sentences) THEN <<>>
  ELSE LET sent == IF i <= Len(endings) THEN sentences[i] \o endings[i]
                   ELSE sentences[i]
       IN  (IF strip(sent) # "" THEN <<strip(sent)>> ELSE <<>>)
           \o sentence_parts(sentences, endings, i + 1)

parts_of(paragraph) ==
  sentence_parts(delim_split(paragraph, 1, ""), delim_findall(paragraph), 1)

\* group_fits that forgets the joining space
group_fits_no_space(buf, p, hard_limit) == Len(buf) + Len(p) <= hard_limit

\* the test of line 61
group_fits(buf, p, hard_limit) == Len(buf) + Len(p) + 1 <= hard_limit

\* regroup that closes the buffer at every fragment
RECURSIVE regroup_never_joins(_, _, _, _, _)
regroup_never_joins(parts, i, groups, buf, hard_limit) ==
  IF i > Len(parts)
  THEN IF buf # "" THEN Append(groups, strip(buf)) ELSE groups
  ELSE regroup_never_joins(parts, i + 1,
                           IF buf # "" THEN Append(groups, strip(buf)) ELSE groups,
                           parts[i], hard_limit)

\* regroup without the flush of lines 67-68
RECURSIVE regroup_no_final_flush(_, _, _, _, _)
regroup_no_final_flush(parts, i, groups, buf, hard_limit) ==
  IF i > Len(parts)
  THEN groups
  ELSE LET p == parts[i]
       IN  IF group_fits(buf, p, hard_limit)
           THEN regroup_no_final_flush(parts, i + 1, groups,
                        IF buf # "" THEN buf \o " " \o p ELSE p, hard_limit)
           ELSE regroup_no_final_flush(parts, i + 1,
                        IF buf # "" THEN Append(groups, strip(buf)) ELSE groups,
                        p, hard_limit)

\* lines 59-69: the loop over parts, from index i with the groups closed so far
\* and the open buffer, then the final flush of the buffer
RECURSIVE regroup(_, _, _, _, _)
regroup(parts, i, groups, buf, hard_limit) ==
  IF i > Len(parts)
  THEN IF buf # "" THEN Append(groups, strip(buf)) ELSE groups
  ELSE LET p == parts[i]
       IN  IF group_fits(buf, p, hard_limit)
           THEN regroup(parts, i + 1, groups,
                        IF buf # "" THEN buf \o " " \o p ELSE p, hard_limit)
           ELSE regroup(parts, i + 1,
                        IF buf # "" THEN Append(groups, strip(buf)) ELSE groups,
                        p, hard_limit)
\* break_long_paragraph that cuts every hard_limit characters
RECURSIVE break_long_paragraph_hard_cut(_, _)
break_long_paragraph_hard_cut(paragraph, hard_limit) ==
  IF Len(paragraph) <= hard_limit \/ hard_limit < 1 THEN <<paragraph>>
  ELSE <<SubSeq(paragraph, 1, hard_limit)>>
         \o break_long_paragraph_hard_cut(
              SubSeq(paragraph, hard_limit + 1, Len(paragraph)), hard_limit)


break_long_paragraph(paragraph, hard_limit) ==
  IF Len(paragraph) <= hard_limit THEN <<paragraph>>
  ELSE regroup(parts_of(paragraph), 1, <<>>, "", hard_limit)

(***************************************************************************)
(* build_chunks: the packer and the page driver.                           *)
(***************************************************************************)
\* fits_last without the two characters of the separator
fits_last_no_separator(cs, para, limit) ==
  cs # <<>> /\ Len(Last(cs)) + Len(para) <= limit

\* fits_last with a strict comparison
fits_last_strict(cs, para, limit) ==
  cs # <<>> /\ Len(Last(cs)) + Len(para) + 2 < limit

\* the test of lines 100, 114 and 129
fits_last(cs, para, limit) ==
  cs # <<>> /\ Len(Last(cs)) + Len(para) + 2 <= limit

\* pack_paragraph that extends the first chunk instead of the last
pack_paragraph_into_first(cs, para, limit) ==
  IF Len(para) > limit
  THEN cs \o break_long_paragraph(para, limit)
  ELSE IF fits_last(cs, para, limit)
       THEN [cs EXCEPT ![1] = @ \o "\n\n" \o para]
       ELSE Append(cs, para)

\* lines 95-103 (the same code at 110-117 and 125-132): one paragraph is split
\* and its groups appended, or joined to the last chunk, or made a new chunk
pack_paragraph(cs, para, limit) ==
  IF Len(para) > limit
  THEN cs \o break_long_paragraph(para, limit)
  ELSE IF fits_last(cs, para, limit)
       THEN [cs EXCEPT ![Len(cs)] = @ \o "\n\n" \o para]
       ELSE Append(cs, para)

\* lines 94-103: the for loop over the complete paragraphs
RECURSIVE pack_all(_, _, _)
pack_all(cs, paras, limit) ==
  IF paras = <<>> THEN cs
  ELSE pack_all(pack_paragraph(cs, Head(paras), limit), Tail(paras), limit)

\* open(path, encoding='utf-8') reads in text mode: every "\r\n" and every
\* other "\r" of the file arrives as "\n"
RECURSIVE universal_newlines(_)
universal_newlines(content) ==
  IF content = "" THEN ""
  ELSE IF Char(content, 1) = "\r"
       THEN "\n" \o universal_newlines(
                      IF Len(content) >= 2 /\ Char(content, 2) = "\n"
                      THEN SubSeq(content, 3, Len(content))
                      ELSE Tail(content))
       ELSE Char(content, 1) \o universal_newlines(Tail(content))

\* lines 29-31: the text of a page, from the content of its file
read_page(content) == universal_newlines(content)

\* line 91: *complete, maybe_incomplete = paragraphs if paragraphs else ["", ""]
unpack_source(paragraphs) == IF paragraphs # <<>> THEN paragraphs ELSE <<"", "">>

\* ends_with_para_break with the sense of the test inverted
ends_with_para_break_inverted(text) == ~endswith(text, "\n\n")

\* line 107: text.rstrip().endswith(("\n\n", "\n"))
ends_with_para_break(text) ==
  endswith(rstrip(text), "\n\n") \/ endswith(rstrip(text), "\n")

\* page_step that empties the buffer after a page without paragraph
page_step_resets(st, text, limit) ==
  LET full_text == IF st.buffer # "" THEN st.buffer \o "\n\n" \o text ELSE text
      paragraphs == split_paragraphs(full_text)
      source == unpack_source(paragraphs)
      complete == Front(source)
      packed == IF complete # <<>> THEN pack_all(st.chunks, complete, limit)
                ELSE st.chunks
  IN  [chunks |-> packed,
       buffer |-> IF split_paragraphs(text) = <<>> THEN "" ELSE Last(source),
       fed |-> st.fed \o complete]

\* lines 85-121: one iteration of the page loop, from the chunks, the buffer and
\* the history of fed paragraphs in st
page_step(st, text, limit) ==
  LET full_text == IF st.buffer # "" THEN st.buffer \o "\n\n" \o text ELSE text
      paragraphs == split_paragraphs(full_text)
      source == unpack_source(paragraphs)
      complete == Front(source)
      maybe_incomplete == Last(source)
      packed == IF complete # <<>> THEN pack_all(st.chunks, complete, limit)
                ELSE st.chunks
  IN  IF ends_with_para_break(text)
      THEN [chunks |-> pack_paragraph(packed, maybe_incomplete, limit),
            buffer |-> "",
            fed |-> st.fed \o complete \o <<maybe_incomplete>>]
      ELSE [chunks |-> packed,
            buffer |-> maybe_incomplete,
            fed |-> st.fed \o complete]

\* flush_step that forgets the buffer
flush_step_dropped(st, limit) == st

\* lines 124-132: the flush of the buffer after the last page
flush_step(st, limit) ==
  IF st.buffer # ""
  THEN [chunks |-> pack_paragraph(st.chunks, st.buffer, limit),
        buffer |-> st.buffer,
        fed |-> Append(st.fed, st.buffer)]
  ELSE st

\* lines 81-82
start_state == [chunks |-> <<>>, buffer |-> "", fed |-> <<>>]

\* lines 84-121 as a fold over the page texts, in order
RECURSIVE fold_pages(_, _, _)
fold_pages(st, texts, limit) ==
  IF texts = <<>> THEN st
  ELSE fold_pages(page_step(st, Head(texts), limit), Tail(texts), limit)

\* lines 81-134: the chunks build_chunks returns for these page texts
build_result(texts, limit) == flush_step(fold_pages(start_state, texts, limit), limit).chunks

(***************************************************************************)
(* save_chunks.                                                            *)
(***************************************************************************)
\* str(n) for n >= 0
RECURSIVE decimal(_)
decimal(n) ==
  IF n < 10 THEN Char("0123456789", n + 1)
  ELSE decimal(n \div 10) \o Char("0123456789", (n % 10) + 1)

\* f"{idx:03d}": the decimal digits, zero-padded on the left to width 3
RECURSIVE zero_pad(_, _)
zero_pad(s, width) == IF Len(s) >= width THEN s ELSE zero_pad("0" \o s, width)

format_03d(idx) == zero_pad(decimal(idx), 3)

\* line 140 (os.path.join leaves the file name as it is)
out_path(idx) == "chunk_" \o format_03d(idx) \o ".md"

\* save_write numbering from 0, as enumerate(chunks) would
save_write_from_zero(cs, idx) ==
  [idx |-> idx - 1, path |-> out_path(idx - 1), content |-> cs[idx]]

\* lines 139-142: the write of the loop iteration with ordinal idx
save_write(cs, idx) == [idx |-> idx, path |-> out_path(idx), content |-> cs[idx]]

(***************************************************************************)
(* The inputs of a run: the pages directory and --max-chars.               *)
(***************************************************************************)
\* page files: empty, with and without a trailing blank line, several
\* paragraphs, a continuation, several sentences, no terminator
Texts == {"", "ab", "b\r\n\r\n", "a\n\nb", VT \o "b.", "a. bc. d"}

\* file names of the pages directory: digits at the end of the stem, none,
\* upper-case extension, equal keys, not a page, a newline before the extension
Names == {"page_2.md", "page_10.md", "a.md", "B.MD", "x2.md", "v1.5.md",
          "7.txt", "page_7\n.md"}

Range(f) == {f[x] : x \in DOMAIN f}

page_file(i) == "page_" \o decimal(5 * i) \o ".md"

\* a directory of k pages and one other file, listed in descending page order
PagesListing(k) == <<"notes.txt">> \o [i \in 1..k |-> page_file(k - i + 1)]

MaxCharsValues == (-1)..MaxMaxChars

\* runs over page contents: k pages named page_5.md, page_10.md, ...
Init ==
  /\ pc = "start"
  /\ max_chars \in MaxCharsValues
  /\ \E k \in 0..MaxPages : \E content \in [1..k -> Texts] :
       /\ listing = PagesListing(k)
       /\ files = [n \in Range(PagesListing(k)) |->
                     IF n = "notes.txt" THEN "x"
                     ELSE content[CHOOSE i \in 1..k : page_file(i) = n]]
  /\ md_files = <<>>
  /\ page_idx = 0
  /\ chunks = <<>>
  /\ buffer = ""
  /\ fed = <<>>
  /\ pages = <<>>
  /\ out_dir = FALSE
  /\ written = <<>>
  /\ FramesIdle

\* the listings of at most MaxFiles distinct names
Listings ==
  {l \in UNION {[1..k -> Names] : k \in 0..MaxFiles} :
     \A i, j \in DOMAIN l : i # j => l[i] # l[j]}

\* runs over file names: every file holds its own name as text
InitNames ==
  /\ pc = "start"
  /\ max_chars \in {0, MaxMaxChars}
  /\ listing \in Listings
  /\ files = [n \in Range(listing) |-> n]
  /\ md_files = <<>>
  /\ page_idx = 0
  /\ chunks = <<>>
  /\ buffer = ""
  /\ fed = <<>>
  /\ pages = <<>>
  /\ out_dir = FALSE
  /\ written = <<>>
  /\ FramesIdle

(***************************************************************************)
(* The steps of main().                                                    *)
(***************************************************************************)
\* ListPages without the raise of line 79
ListPages_no_raise ==
  /\ pc = "start"
  /\ md_files' = sorted(md_filter(listing))
  /\ pc' = IF md_files' = <<>> THEN "flush" ELSE "pages"
  /\ chunks' = <<>>
  /\ buffer' = ""
  /\ UNCHANGED <<listing, files, max_chars, page_idx, fed, pages, out_dir, written>>
  /\ UNCHANGED frames

\* build_chunks, lines 74-82: list, filter, sort; raise when no page is found
ListPages ==
  /\ pc = "start"
  /\ md_files' = sorted(md_filter(listing))
  /\ pc' = IF md_files' = <<>> THEN "error" ELSE "pages"
  /\ chunks' = <<>>
  /\ buffer' = ""
  /\ UNCHANGED <<listing, files, max_chars, page_idx, fed, pages, out_dir, written>>
  /\ UNCHANGED frames

\* build_chunks, lines 84-121: one iteration of the loop over md_files; line 86
\* reads the page with read_page
ProcessPage ==
  /\ pc = "pages"
  /\ page_idx < Len(md_files)
  /\ LET text == read_page(files[md_files[page_idx + 1]])
         st == page_step([chunks |-> chunks, buffer |-> buffer, fed |-> fed],
                         text, max_chars)
     IN  /\ chunks' = st.chunks
         /\ buffer' = st.buffer
         /\ fed' = st.fed
         /\ pages' = Append(pages, text)
  /\ page_idx' = page_idx + 1
  /\ pc' = IF page_idx' = Len(md_files) THEN "flush" ELSE "pages"
  /\ UNCHANGED <<listing, files, max_chars, md_files, out_dir, written>>
  /\ UNCHANGED frames

\* Flush that runs the flush of the buffer twice
Flush_twice ==
  /\ pc = "flush"
  /\ LET st == flush_step(flush_step([chunks |-> chunks, buffer |-> buffer,
                                      fed |-> fed], max_chars), max_chars)
     IN  /\ chunks' = st.chunks
         /\ buffer' = st.buffer
         /\ fed' = st.fed
  /\ pc' = "save"
  /\ UNCHANGED <<listing, files, max_chars, md_files, page_idx, pages, out_dir, written>>
  /\ UNCHANGED frames

\* build_chunks, lines 123-134: flush the buffer and return to main, line 159
Flush ==
  /\ pc = "flush"
  /\ LET st == flush_step([chunks |-> chunks, buffer |-> buffer, fed |-> fed],
                          max_chars)
     IN  /\ chunks' = st.chunks
         /\ buffer' = st.buffer
         /\ fed' = st.fed
  /\ pc' = "save"
  /\ UNCHANGED <<listing, files, max_chars, md_files, page_idx, pages, out_dir, written>>
  /\ UNCHANGED frames

\* save_chunks, line 138: os.makedirs(output_dir, exist_ok=True)
MakeOutputDir ==
  /\ pc = "save"
  /\ out_dir' = TRUE
  /\ pc' = "write"
  /\ UNCHANGED <<listing, files, max_chars, md_files, page_idx, chunks, buffer,
                 fed, pages, written>>
  /\ UNCHANGED frames

\* WriteChunk emitting a chunk as soon as the packer has made it
WriteChunk_streaming ==
  /\ pc \in {"pages", "flush", "write"}
  /\ Len(written) < Len(chunks)
  /\ written' = Append(written, save_write(chunks, Len(written) + 1))
  /\ UNCHANGED <<pc, listing, files, max_chars, md_files, page_idx, chunks, buffer,
                 fed, pages, out_dir>>
  /\ UNCHANGED frames

\* save_chunks, lines 139-142: one iteration of the loop over enumerate(chunks, 1)
WriteChunk ==
  /\ pc = "write"
  /\ Len(written) < Len(chunks)
  /\ written' = Append(written, save_write(chunks, Len(written) + 1))
  /\ UNCHANGED <<pc, listing, files, max_chars, md_files, page_idx, chunks, buffer,
                 fed, pages, out_dir>>
  /\ UNCHANGED frames

\* save_chunks, line 143: the loop is over, main returns
SaveDone ==
  /\ pc = "write"
  /\ Len(written) = Len(chunks)
  /\ pc' = "done"
  /\ UNCHANGED <<listing, files, max_chars, md_files, page_idx, chunks, buffer,
                 fed, pages, out_dir, written>>
  /\ UNCHANGED frames

Next == ListPages \/ ProcessPage \/ Flush \/ MakeOutputDir \/ WriteChunk \/ SaveDone

Spec == Init /\ [][Next]_vars

SpecNames == InitNames /\ [][Next]_vars

(***************************************************************************)
(* Vocabulary of the properties.                                           *)
(***************************************************************************)
\* build_chunks has just returned its chunk list to main
Returned == pc = "save"

\* chunk.split("\n\n"): the pieces between the occurrences of the separator,
\* found from left to right, empty pieces included
RECURSIVE split_sep(_, _, _)
split_sep(s, i, piece) ==
  IF i > Len(s) THEN <<piece>>
  ELSE IF i < Len(s) /\ SubSeq(s, i, i + 1) = "\n\n"
       THEN <<piece>> \o split_sep(s, i + 2, "")
       ELSE split_sep(s, i + 1, piece \o Char(s, i))

Units(chunk) == split_sep(chunk, 1, "")

\* the paragraphs of the page texts, page after page
RECURSIVE ParagraphStream(_)
ParagraphStream(texts) ==
  IF texts = <<>> THEN <<>>
  ELSE split_paragraphs(Head(texts)) \o ParagraphStream(Tail(texts))

AllFit(paras, limit) == \A k \in DOMAIN paras : Len(paras[k]) <= limit

\* sub is seq[from+1 .. from+Len(sub)] for some from
IsContiguousPart(sub, seq) ==
  \E from \in 0..(Len(seq) - Len(sub)) :
    \A k \in DOMAIN sub : sub[k] = seq[from + k]

\* s without its whitespace characters
RECURSIVE Squeeze(_)
Squeeze(s) ==
  IF s = "" THEN ""
  ELSE IF Char(s, 1) \in WHITESPACE THEN Squeeze(Tail(s))
       ELSE Char(s, 1) \o Squeeze(Tail(s))

RECURSIVE Concat(_)
Concat(strs) == IF strs = <<>> THEN "" ELSE Head(strs) \o Concat(Tail(strs))

\* the non-empty units of all chunks, in order
RECURSIVE AllUnits(_)
AllUnits(cs) ==
  IF cs = <<>> THEN <<>>
  ELSE SelectSeq(Units(Head(cs)), LAMBDA u : u # "") \o AllUnits(Tail(cs))

\* every paragraph as the packer receives it: whole when it fits, else its groups
RECURSIVE ExpectedUnits(_, _)
ExpectedUnits(paras, limit) ==
  IF paras = <<>> THEN <<>>
  ELSE break_long_paragraph(Head(paras), limit) \o ExpectedUnits(Tail(paras), limit)

(***************************************************************************)
(* C1  No mid-paragraph split: when max_chars >= 1 and every paragraph of  *)
(* the pages fits in max_chars, every returned chunk split on "\n\n" is a  *)
(* contiguous part of the paragraph stream (no empty or foreign element).  *)
(* Stated as claimed; the empty chunk of a leading empty page violates it. *)
(***************************************************************************)
NoMidParagraphSplit ==
  (/\ Returned
   /\ max_chars >= 1
   /\ ParagraphStream(pages) # <<>>
   /\ AllFit(ParagraphStream(pages), max_chars))
    => \A i \in DOMAIN chunks :
         IsContiguousPart(Units(chunks[i]), ParagraphStream(pages))

(***************************************************************************)
(* C2  Boundedness: with max_chars >= 1, after every page and after the    *)
(* flush, a chunk is longer than max_chars only if it is one sentence      *)
(* fragment, itself longer than max_chars, of a paragraph that was fed.    *)
(***************************************************************************)
IsOversizedFragment(c) ==
  \E k \in DOMAIN fed :
    /\ Len(fed[k]) > max_chars
    /\ \E j \in DOMAIN parts_of(fed[k]) : parts_of(fed[k])[j] = c

Boundedness ==
  max_chars >= 1 =>
    \A i \in DOMAIN chunks :
      Len(chunks[i]) <= max_chars \/ IsOversizedFragment(chunks[i])

BoundednessWitness ==
  /\ Returned
  /\ max_chars >= 1
  /\ \E i \in DOMAIN chunks : Len(chunks[i]) > max_chars
  /\ \E i \in DOMAIN chunks : Len(chunks[i]) = max_chars

(***************************************************************************)
(* C3  Conservation: with max_chars >= 1 the returned chunks hold the text *)
(* of the pages, in order and once, up to whitespace; their units are the  *)
(* paragraphs of the pages in order (an oversized paragraph as its         *)
(* groups), the paragraph carried past the last page included.             *)
(***************************************************************************)
Conservation ==
  (Returned /\ max_chars >= 1) =>
    /\ Squeeze(Concat(chunks)) = Squeeze(Concat(pages))
    /\ AllUnits(chunks) = ExpectedUnits(ParagraphStream(pages), max_chars)

ConservationWitness ==
  /\ Returned
  /\ max_chars >= 1
  /\ Len(pages) >= 2
  /\ buffer # ""
  /\ Len(ParagraphStream(pages)) >= 3
  /\ \E i \in DOMAIN chunks : Len(Units(chunks[i])) >= 2
  /\ \E k \in DOMAIN fed : Len(fed[k]) > max_chars

(***************************************************************************)
(* C4  Carry correctness: when page A ends without a trailing blank line   *)
(* and page B starts with the continuation, one paragraph spanning the     *)
(* tail of A and the head of B is fed to the packer.  Stated as claimed;   *)
(* line 87 joins the carry and the page with "\n\n", so they stay two.     *)
(***************************************************************************)
Continues(A, B) ==
  /\ split_paragraphs(A) # <<>>
  /\ ~endswith(A, "\n")
  /\ split_paragraphs(B) # <<>>
  /\ Char(B, 1) # "\n"

Spans(para, A, B) ==
  LET tail == Last(split_paragraphs(A))
      head == Head(split_paragraphs(B))
  IN  /\ Len(para) >= Len(tail) + Len(head)
      /\ SubSeq(para, 1, Len(tail)) = tail
      /\ endswith(para, head)

CarryCorrectness ==
  (Returned /\ max_chars >= 1) =>
    \A i \in 1..(Len(pages) - 1) :
      Continues(pages[i], pages[i + 1]) =>
        \E k \in DOMAIN fed : Spans(fed[k], pages[i], pages[i + 1])

(***************************************************************************)
(* C5  An empty page contributes nothing: with max_chars >= 1 the returned *)
(* chunks are those of the same pages without the pages of zero            *)
(* characters, and no empty unit is fed to the packer.  Stated as claimed; *)
(* line 91 makes an empty first page feed the paragraph "".                *)
(***************************************************************************)
WithoutEmptyPages(texts) == SelectSeq(texts, LAMBDA t : t # "")

FedResult(texts, limit) == flush_step(fold_pages(start_state, texts, limit), limit).fed

EmptyPageContributesNothing ==
  (/\ Returned
   /\ max_chars >= 1
   /\ \E i \in DOMAIN pages : pages[i] = ""
   /\ ParagraphStream(WithoutEmptyPages(pages)) # <<>>) =>
    /\ chunks = build_result(WithoutEmptyPages(pages), max_chars)
    /\ fed = FedResult(WithoutEmptyPages(pages), max_chars)

(***************************************************************************)
(* C6  No input: when no name of the directory is a page document (none    *)
(* ends in .md, in any letter case as line 75 compares), the run ends in   *)
(* the error of build_chunks with no page read, no chunk made, no output   *)
(* directory and no document written.                                      *)
(***************************************************************************)
NoPageDocument == \A k \in DOMAIN listing : ~endswith(lower(listing[k]), ".md")

UsageErrorOnNoInput ==
  (NoPageDocument /\ pc # "start") =>
    /\ pc = "error"
    /\ pages = <<>>
    /\ chunks = <<>>
    /\ ~out_dir
    /\ written = <<>>

UsageErrorOnNoInputWitness ==
  /\ NoPageDocument
  /\ listing # <<>>
  /\ pc = "error"

(***************************************************************************)
(* C7  Non-positive bound: when max_chars <= 0 the run fails before any    *)
(* page is packed and no chunk document is written.  Stated as claimed;    *)
(* nothing in main or build_chunks tests max_chars.                        *)
(***************************************************************************)
UsageErrorOnBadBound == max_chars <= 0 => written = <<>>

(***************************************************************************)
(* C8  Emitter numbering: the i-th write of save_chunks carries ordinal i, *)
(* in its loop variable and in its file name, and the i-th chunk; when     *)
(* save_chunks is done there is one write per chunk.                       *)
(***************************************************************************)
OrdinalOfPath(path) ==
  IF Len(path) >= 12 /\ SubSeq(path, 1, 6) = "chunk_" /\ endswith(path, ".md")
     /\ \A k \in 7..(Len(path) - 3) : Char(path, k) \in DIGITS
  THEN int(SubSeq(path, 7, Len(path) - 3))
  ELSE -1

EmitterNumbering ==
  /\ \A i \in DOMAIN written :
       /\ written[i].idx = i
       /\ OrdinalOfPath(written[i].path) = i
       /\ written[i].content = chunks[i]
  /\ pc = "done" => Len(written) = Len(chunks)

EmitterNumberingWitness ==
  /\ pc = "done"
  /\ Len(written) >= 3
  /\ written[1].content # written[2].content

(***************************************************************************)
(* C9  No partial emission: a document is written only after every page    *)
(* has been processed and the buffer flushed; what is written for ordinal  *)
(* i is chunk i in every state from that write on (no chunk changes once   *)
(* written), and at the end the chunks are the packing of all the pages.   *)
(***************************************************************************)
RECURSIVE TextsOf(_)
TextsOf(names) ==
  IF names = <<>> THEN <<>>
  ELSE <<read_page(files[Head(names)])>> \o TextsOf(Tail(names))

FinalChunks == build_result(TextsOf(md_files), max_chars)

NoPartialEmission ==
  /\ written # <<>> =>
       /\ pc \in {"write", "done"}
       /\ page_idx = Len(md_files)
       /\ pages = TextsOf(md_files)
       /\ buffer # "" => (fed # <<>> /\ Last(fed) = buffer)
       /\ \A i \in DOMAIN written : written[i].content = chunks[i]
  /\ pc = "done" => chunks = FinalChunks

NoPartialEmissionWitness ==
  /\ pc = "write"
  /\ Len(written) >= 1
  /\ Len(written) < Len(chunks)
  /\ buffer # ""
  /\ Len(pages) >= 2

(***************************************************************************)
(* C10  Ordering key: the key of a name is the value of the longest run of *)
(* digits that ends its stem, 0 when the stem ends in no digit, and the    *)
(* pages are processed in non-decreasing key order.  Stated as claimed;    *)
(* the `$` of line 26 also matches before a newline that ends the stem.    *)
(***************************************************************************)
KeyAsClaimed(name) ==
  LET digits == trailing_digits(splitext_root(name))
  IN  IF digits = "" THEN 0 ELSE int(digits)

ProcessedInKeyOrder ==
  /\ \A i \in DOMAIN pages : pages[i] = read_page(files[md_files[i]])
  /\ \A i, j \in DOMAIN pages :
       i < j => natural_sort_key(md_files[i]) <= natural_sort_key(md_files[j])

OrderingKey ==
  /\ \A k \in DOMAIN listing : natural_sort_key(listing[k]) = KeyAsClaimed(listing[k])
  /\ ProcessedInKeyOrder

(***************************************************************************)
(* C11  Idempotence of ordering: sorting a name list that is already in    *)
(* key order returns it unchanged, names of equal key (or without digits)  *)
(* keeping their input order; so sorting the sorted page list is a no-op.  *)
(***************************************************************************)
InKeyOrder(names) ==
  \A i, j \in DOMAIN names :
    i < j => natural_sort_key(names[i]) <= natural_sort_key(names[j])

OrderingIdempotent ==
  /\ (pc = "start" /\ InKeyOrder(md_filter(listing)))
       => sorted(md_filter(listing)) = md_filter(listing)
  /\ (pc = "pages" /\ page_idx = 0) => sorted(md_files) = md_files

OrderingIdempotentWitness ==
  /\ pc = "pages"
  /\ Len(md_files) = 3
  /\ md_files = listing
  /\ natural_sort_key(md_files[1]) = natural_sort_key(md_files[2])
  /\ md_files[1] = "a.md"
  /\ md_files[2] = "B.MD"

(***************************************************************************)
(* C12  Tie-breaking: pages of equal key are processed in lexical name     *)
(* order whatever the order of the directory listing.  Stated as claimed;  *)
(* the stable sort of line 74 keeps the listing order of equal keys.       *)
(***************************************************************************)
\* the characters of the names in code point order
CODE_ORDER == "\n .0123456789ABCDEFGHIJKLMNOPQRSTUVWXYZ_abcdefghijklmnopqrstuvwxyz"

CodePoint(c) == CHOOSE k \in 1..Len(CODE_ORDER) : Char(CODE_ORDER, k) = c

RECURSIVE LexLess(_, _)
LexLess(s, t) ==
  IF t = "" THEN FALSE
  ELSE IF s = "" THEN TRUE
  ELSE IF Char(s, 1) = Char(t, 1) THEN LexLess(Tail(s), Tail(t))
  ELSE CodePoint(Char(s, 1)) < CodePoint(Char(t, 1))

TiesInLexicalOrder ==
  \A i, j \in DOMAIN md_files :
    (i < j /\ natural_sort_key(md_files[i]) = natural_sort_key(md_files[j]))
      => LexLess(md_files[i], md_files[j])

(***************************************************************************)
(* C13  Everything that fits goes into one chunk: when every page holds a  *)
(* paragraph and all paragraphs joined by a blank line are no longer than  *)
(* max_chars, build_chunks returns exactly that join as its only chunk.    *)
(***************************************************************************)
RECURSIVE JoinParagraphs(_)
JoinParagraphs(paras) ==
  IF paras = <<>> THEN ""
  ELSE IF Len(paras) = 1 THEN paras[1]
  ELSE Head(paras) \o "\n\n" \o JoinParagraphs(Tail(paras))

EveryPageHasParagraph ==
  /\ pages # <<>>
  /\ \A i \in DOMAIN pages : split_paragraphs(pages[i]) # <<>>

OneChunkWhenAllFits ==
  (/\ Returned
   /\ EveryPageHasParagraph
   /\ Len(JoinParagraphs(ParagraphStream(pages))) <= max_chars)
    => chunks = <<JoinParagraphs(ParagraphStream(pages))>>

OneChunkWhenAllFitsWitness ==
  /\ Returned
  /\ EveryPageHasParagraph
  /\ Len(pages) >= 2
  /\ Len(JoinParagraphs(ParagraphStream(pages))) = max_chars
  /\ chunks = <<JoinParagraphs(ParagraphStream(pages))>>

(***************************************************************************)
(* C14  Never break inside a sentence: with a positive max_chars, every    *)
(* sentence fragment longer than max_chars is a chunk of its own, and a    *)
(* paragraph longer than max_chars without terminator is one whole chunk.  *)
(***************************************************************************)
HasTerminator(s) == \E i \in 1..Len(s) : Char(s, i) \in SENTENCE_DELIM

NeverBreakSentence ==
  (Returned /\ max_chars >= 1) =>
    \A k \in DOMAIN fed :
      Len(fed[k]) > max_chars =>
        /\ \A j \in DOMAIN parts_of(fed[k]) :
             Len(parts_of(fed[k])[j]) > max_chars
               => \E i \in DOMAIN chunks : chunks[i] = parts_of(fed[k])[j]
        /\ ~HasTerminator(fed[k]) =>
             /\ \E i \in DOMAIN chunks : chunks[i] = fed[k]
             /\ Len(fed) = 1 => chunks = <<fed[k]>>

NeverBreakSentenceWitness ==
  /\ Returned
  /\ max_chars = 1
  /\ \E k \in DOMAIN fed : fed[k] = "ab"
  /\ \E k \in DOMAIN fed : fed[k] = "a. bc. d"
  /\ \E i \in DOMAIN chunks : chunks[i] = "ab"
  /\ \E i \in DOMAIN chunks : chunks[i] = "bc."

(***************************************************************************)
(* C15  Clean page resets the carry: after a page whose raw text ends with *)
(* a paragraph boundary every paragraph of the merged text has been fed    *)
(* and the carry buffer is empty.  Stated as claimed; the test of line 107 *)
(* strips the text first, so it never sees the boundary.                   *)
(***************************************************************************)
\* the raw text ends with one or more blank lines
EndsWithBoundary(text) == endswith(text, "\n\n")

AfterPage == pc \in {"pages", "flush"} /\ pages # <<>>

NonEmpty(units) == SelectSeq(units, LAMBDA u : u # "")

CleanPageResetsCarry ==
  (/\ AfterPage
   /\ max_chars >= 1
   /\ EndsWithBoundary(Last(pages))
   /\ split_paragraphs(Last(pages)) # <<>>)
    => /\ buffer = ""
       /\ NonEmpty(fed) = ParagraphStream(pages)

(***************************************************************************)
(* C16  Incomplete page holds its tail: a page whose raw text does not end *)
(* with a paragraph boundary feeds every paragraph of the merged text but  *)
(* the last, which becomes the carry buffer; the chunks gain exactly the   *)
(* paragraphs before it.                                                   *)
(***************************************************************************)
MergedText(carry, text) == IF carry # "" THEN carry \o "\n\n" \o text ELSE text

HoldsTail(text) ==
  LET paras == split_paragraphs(MergedText(buffer, text))
  IN  (~EndsWithBoundary(text) /\ paras # <<>>) =>
        /\ buffer' = Last(paras)
        /\ fed' = fed \o Front(paras)
        /\ AllUnits(chunks') = AllUnits(chunks) \o ExpectedUnits(Front(paras), max_chars)

IncompletePageHoldsTail ==
  [][pages' # pages => HoldsTail(Last(pages'))]_vars

IncompletePageHoldsTailWitness ==
  /\ AfterPage
  /\ Len(pages) >= 2
  /\ ~EndsWithBoundary(Last(pages))
  /\ Len(split_paragraphs(Last(pages))) >= 2
  /\ buffer = Last(split_paragraphs(Last(pages)))
  /\ Len(fed) >= 2
  /\ chunks # <<>>

(***************************************************************************)
(* C17  Terminal flush: when build_chunks returns, a non-empty carry has   *)
(* been fed as the last unit, every paragraph of the pages (each of them   *)
(* held in the carry or fed directly) has been fed exactly once and in     *)
(* order, and the carried paragraph closes the returned chunks.            *)
(***************************************************************************)
TerminalFlush ==
  Returned =>
    /\ NonEmpty(fed) = ParagraphStream(pages)
    /\ buffer # "" =>
         /\ fed # <<>> /\ Last(fed) = buffer
         /\ AllUnits(chunks) # <<>>
         /\ Last(AllUnits(chunks)) = Last(break_long_paragraph(buffer, max_chars))

TerminalFlushWitness ==
  /\ Returned
  /\ Len(pages) = 3
  /\ split_paragraphs(pages[1]) # <<>>
  /\ pages[2] = ""
  /\ buffer # ""
  /\ Len(fed) >= 2
  /\ Last(fed) = buffer

(***************************************************************************)
(* C18  Per-unit packing rule: a fed unit no longer than max_chars joins   *)
(* the last chunk behind a blank line exactly when that chunk exists, is   *)
(* not empty and has room for separator and unit; otherwise it opens a new *)
(* chunk.  Stated as claimed; line 100 does not look at whether the last   *)
(* chunk is empty.                                                         *)
(***************************************************************************)
\* the units fed by the step
NewlyFed == SubSeq(fed', Len(fed) + 1, Len(fed'))

ClaimedUnitRule(cs, u) ==
  IF cs # <<>> /\ Last(cs) # "" /\ Len(Last(cs)) + 2 + Len(u) <= max_chars
  THEN [cs EXCEPT ![Len(cs)] = @ \o "\n\n" \o u]
  ELSE Append(cs, u)

RECURSIVE ClaimedUnitRuleAll(_, _)
ClaimedUnitRuleAll(cs, units) ==
  IF units = <<>> THEN cs
  ELSE ClaimedUnitRuleAll(ClaimedUnitRule(cs, Head(units)), Tail(units))

PerUnitPackingRule ==
  [][(\A k \in DOMAIN NewlyFed :
        NewlyFed[k] # "" /\ Len(NewlyFed[k]) <= max_chars)
       => chunks' = ClaimedUnitRuleAll(chunks, NewlyFed)]_vars

(***************************************************************************)
(* C19  Fragment-groups go through the packer: the groups of an oversized  *)
(* paragraph are fed one by one through the rule of lines 100-103, so the  *)
(* first group joins the last chunk when it fits there.  Stated as         *)
(* claimed; line 97 extends the chunk list with the groups.                *)
(***************************************************************************)
GroupThroughPacker(cs, g) ==
  IF fits_last(cs, g, max_chars)
  THEN [cs EXCEPT ![Len(cs)] = @ \o "\n\n" \o g]
  ELSE Append(cs, g)

RECURSIVE GroupsThroughPacker(_, _)
GroupsThroughPacker(cs, groups) ==
  IF groups = <<>> THEN cs
  ELSE GroupsThroughPacker(GroupThroughPacker(cs, Head(groups)), Tail(groups))

RECURSIVE ClaimedFeedAll(_, _)
ClaimedFeedAll(cs, units) ==
  IF units = <<>> THEN cs
  ELSE ClaimedFeedAll(
         IF Len(Head(units)) > max_chars
         THEN GroupsThroughPacker(cs, break_long_paragraph(Head(units), max_chars))
         ELSE pack_paragraph(cs, Head(units), max_chars),
         Tail(units))

FragmentGroupsArePacked ==
  [][(max_chars >= 1 /\ \A i \in DOMAIN chunks : chunks[i] # "")
       => chunks' = ClaimedFeedAll(chunks, NewlyFed)]_vars

(***************************************************************************)
(* C20  Closed chunks are immutable: every step keeps all chunks but the   *)
(* last as they are, removes and reorders none, and changes the last one   *)
(* only by appending text at its end.                                      *)
(***************************************************************************)
IsPrefix(s, t) == Len(s) <= Len(t) /\ SubSeq(t, 1, Len(s)) = s

ChunksExtended ==
  /\ Len(chunks') >= Len(chunks)
  /\ \A i \in 1..(Len(chunks) - 1) : chunks'[i] = chunks[i]
  /\ chunks # <<>> => IsPrefix(Last(chunks), chunks'[Len(chunks)])

ClosedChunksImmutable == [][ChunksExtended]_vars

ClosedChunksImmutableWitness ==
  /\ pc \in {"pages", "flush", "save"}
  /\ Len(chunks) >= 2
  /\ Len(Units(Last(chunks))) >= 2
  /\ Len(pages) >= 2

(***************************************************************************)
(* break_long_paragraph called on its own: the paragraph and the limit are *)
(* drawn from bounded sets, the one step is the call.                      *)
(***************************************************************************)
\* main() of snow_chunk.py is not running
ChunkerOff ==
  /\ pc = "off"
  /\ listing = <<>>
  /\ files = <<>>
  /\ max_chars = 0
  /\ md_files = <<>>
  /\ page_idx = 0
  /\ chunks = <<>>
  /\ buffer = ""
  /\ fed = <<>>
  /\ pages = <<>>
  /\ out_dir = FALSE
  /\ written = <<>>

\* trimmed, non-empty paragraphs, as split_paragraphs hands them on
Paragraphs ==
  {"a", "ab", "a.b", ".a", "a..b", "a .b", "a.\nb", "a.  b.", "ab.cd.",
   "a! b? c", "a. b. c", "a. bc. d", "abcd. a. b", "ab. c. d. e"}

InitSplit ==
  /\ ChunkerOff
  /\ \E paragraph \in Paragraphs : \E hard_limit \in 0..MaxHardLimit :
       splitter = [pc |-> "call", paragraph |-> paragraph,
                   hard_limit |-> hard_limit, result |-> <<>>]
  /\ segmenter = Idle
  /\ runner = Idle
  /\ translator = Idle

\* lines 42-69: the call of break_long_paragraph and its return value
CallBreakLongParagraph ==
  /\ splitter.pc = "call"
  /\ splitter' = [splitter EXCEPT
                    !.pc = "return",
                    !.result = break_long_paragraph(splitter.paragraph,
                                                    splitter.hard_limit)]
  /\ UNCHANGED <<chunker, segmenter, runner, translator>>

NextSplit == CallBreakLongParagraph

SpecSplit == InitSplit /\ [][NextSplit]_vars

\* the call has returned the groups of a paragraph longer than a positive limit
SplitReturned ==
  /\ splitter.pc = "return"
  /\ splitter.hard_limit >= 1
  /\ Len(splitter.paragraph) > splitter.hard_limit

\* the sentence fragments a group is made of
FragmentsOf(group) == parts_of(group)

(***************************************************************************)
(* C21  Fragment-groups are bounded: a group of two or more fragments is   *)
(* never longer than hard_limit, and a group longer than hard_limit is one *)
(* single fragment that is itself longer.                                  *)
(***************************************************************************)
GroupsBounded ==
  SplitReturned =>
    \A k \in DOMAIN splitter.result :
      LET g == splitter.result[k]
      IN  /\ Len(FragmentsOf(g)) >= 2 => Len(g) <= splitter.hard_limit
          /\ Len(g) > splitter.hard_limit =>
               \E j \in DOMAIN parts_of(splitter.paragraph) :
                 parts_of(splitter.paragraph)[j] = g

GroupsBoundedWitness ==
  /\ SplitReturned
  /\ \E k \in DOMAIN splitter.result : Len(splitter.result[k]) > splitter.hard_limit
  /\ \E k \in DOMAIN splitter.result :
       /\ Len(FragmentsOf(splitter.result[k])) >= 2
       /\ Len(splitter.result[k]) = splitter.hard_limit

(***************************************************************************)
(* C22  Greedy regrouping: a group is closed only when the next fragment   *)
(* would overflow it, the fragments are used in order and each exactly     *)
(* once, joined by one space, and the last buffer is the last group.       *)
(***************************************************************************)
RECURSIVE JoinSpace(_)
JoinSpace(frags) ==
  IF frags = <<>> THEN ""
  ELSE IF Len(frags) = 1 THEN frags[1]
  ELSE Head(frags) \o " " \o JoinSpace(Tail(frags))

RECURSIVE AllFragments(_)
AllFragments(groups) ==
  IF groups = <<>> THEN <<>>
  ELSE FragmentsOf(Head(groups)) \o AllFragments(Tail(groups))

GreedyRegrouping ==
  SplitReturned =>
    LET groups == splitter.result
    IN  /\ \A k \in 1..(Len(groups) - 1) :
             Len(groups[k]) + 1 + Len(Head(FragmentsOf(groups[k + 1])))
               > splitter.hard_limit
        /\ AllFragments(groups) = parts_of(splitter.paragraph)
        /\ \A k \in DOMAIN groups : groups[k] = JoinSpace(FragmentsOf(groups[k]))
        /\ groups # <<>>
        /\ Last(FragmentsOf(Last(groups))) = Last(parts_of(splitter.paragraph))

GreedyRegroupingWitness ==
  /\ SplitReturned
  /\ Len(splitter.result) >= 3
  /\ \E k \in DOMAIN splitter.result : Len(FragmentsOf(splitter.result[k])) >= 2
  /\ Len(FragmentsOf(Last(splitter.result))) = 1

(***************************************************************************)
(* C23  Terminators stay attached: every fragment but the last ends with a *)
(* terminator, a terminator is never anywhere else in a fragment, none is  *)
(* dropped, and every group but the last ends with a terminator.  Stated   *)
(* for the terminators . ! ? that a string of the model can hold.          *)
(***************************************************************************)
RECURSIVE CountTerminators(_)
CountTerminators(s) ==
  IF s = "" THEN 0
  ELSE (IF Char(s, 1) \in SENTENCE_DELIM THEN 1 ELSE 0) + CountTerminators(Tail(s))

EndsWithTerminator(s) == s # "" /\ Char(s, Len(s)) \in SENTENCE_DELIM

TerminatorsAttached ==
  SplitReturned =>
    LET frags == parts_of(splitter.paragraph)
        groups == splitter.result
    IN  /\ \A j \in 1..(Len(frags) - 1) : EndsWithTerminator(frags[j])
        /\ \A j \in DOMAIN frags : \A i \in 1..(Len(frags[j]) - 1) :
             Char(frags[j], i) \notin SENTENCE_DELIM
        /\ \A k \in 1..(Len(groups) - 1) : EndsWithTerminator(groups[k])
        /\ CountTerminators(Concat(groups)) = CountTerminators(splitter.paragraph)
        /\ CountTerminators(Concat(frags)) = CountTerminators(splitter.paragraph)

TerminatorsAttachedWitness ==
  /\ SplitReturned
  /\ splitter.paragraph = "a! b? c"
  /\ splitter.result = <<"a!", "b?", "c">>

(***************************************************************************)
(* C28  The splitter loses no text: it returns at least one group, no      *)
(* group is empty, and the groups in order hold the characters of the      *)
(* paragraph, whitespace aside.                                            *)
(***************************************************************************)
SplitterLosesNoText ==
  SplitReturned =>
    /\ splitter.result # <<>>
    /\ \A k \in DOMAIN splitter.result : splitter.result[k] # ""
    /\ Squeeze(Concat(splitter.result)) = Squeeze(splitter.paragraph)

SplitterLosesNoTextWitness ==
  /\ SplitReturned
  /\ splitter.paragraph = "a.  b."
  /\ splitter.result = <<"a.", "b.">>

(***************************************************************************)
(* split_paragraphs called on its own, on every text of at most MaxTextLen *)
(* characters over a letter, a space and a newline, and on a few longer    *)
(* ones.                                                                   *)
(***************************************************************************)
TextAlphabet == {"a", " ", "\n"}

RECURSIVE StringsOfLen(_)
StringsOfLen(n) ==
  IF n = 0 THEN {""}
  ELSE {c \o t : c \in TextAlphabet, t \in StringsOfLen(n - 1)}

RawTexts ==
  UNION {StringsOfLen(n) : n \in 0..MaxTextLen}
    \cup {"a\na\n\n\n a ", "a\n \na", "\ta\r\n\n\fa\n\na\n",
          VT \o "a" \o FS \o "\n\n" \o US \o "a" \o GS \o RS}

InitParagraphs ==
  /\ ChunkerOff
  /\ \E text \in RawTexts :
       segmenter = [pc |-> "call", text |-> text, result |-> <<>>]
  /\ splitter = Idle
  /\ runner = Idle
  /\ translator = Idle

\* lines 34-39: the call of split_paragraphs and its return value
CallSplitParagraphs ==
  /\ segmenter.pc = "call"
  /\ segmenter' = [segmenter EXCEPT !.pc = "return",
                                    !.result = split_paragraphs(segmenter.text)]
  /\ UNCHANGED <<chunker, splitter, runner, translator>>

NextParagraphs == CallSplitParagraphs

SpecParagraphs == InitParagraphs /\ [][NextParagraphs]_vars

(***************************************************************************)
(* C24  Paragraph segmentation: split_paragraphs returns, in order, the    *)
(* pieces between the runs of two or more newlines, trimmed, the empty     *)
(* ones dropped; so no paragraph is empty, starts or ends with whitespace  *)
(* or holds two newlines in a row, and a single newline inside stays.      *)
(***************************************************************************)
\* position k of text lies in a run of two or more newlines
InNewlineRun(text, k) ==
  /\ Char(text, k) = "\n"
  /\ \/ (k > 1 /\ Char(text, k - 1) = "\n")
     \/ (k < Len(text) /\ Char(text, k + 1) = "\n")

\* the first positions of the maximal stretches outside the runs
PieceStarts(text) ==
  {i \in 1..Len(text) :
     ~InNewlineRun(text, i) /\ (i = 1 \/ InNewlineRun(text, i - 1))}

PieceFrom(text, i) ==
  LET j == CHOOSE e \in i..Len(text) :
             /\ \A k \in i..e : ~InNewlineRun(text, k)
             /\ (e = Len(text) \/ InNewlineRun(text, e + 1))
  IN  SubSeq(text, i, j)

RECURSIVE TrimmedPieces(_, _)
TrimmedPieces(text, starts) ==
  IF starts = {} THEN <<>>
  ELSE LET i == CHOOSE m \in starts : \A n \in starts : m <= n
           piece == strip(PieceFrom(text, i))
       IN  (IF piece # "" THEN <<piece>> ELSE <<>>)
           \o TrimmedPieces(text, starts \ {i})

HasBlankLine(s) == \E i \in 1..(Len(s) - 1) : SubSeq(s, i, i + 1) = "\n\n"

ParagraphSegmentation ==
  segmenter.pc = "return" =>
    /\ segmenter.result = TrimmedPieces(segmenter.text, PieceStarts(segmenter.text))
    /\ \A k \in DOMAIN segmenter.result :
         LET p == segmenter.result[k]
         IN  /\ p # ""
             /\ Char(p, 1) \notin WHITESPACE
             /\ Char(p, Len(p)) \notin WHITESPACE
             /\ ~HasBlankLine(p)
    /\ Squeeze(Concat(segmenter.result)) = Squeeze(segmenter.text)

ParagraphSegmentationWitness ==
  /\ segmenter.pc = "return"
  /\ segmenter.text = "a\na\n\n\n a "
  /\ segmenter.result = <<"a\na", "a">>

(***************************************************************************)
(* C25  Page boundaries do not influence the result: with max_chars >= 1   *)
(* the returned chunks are those of feeding the flat paragraph stream of   *)
(* the pages unit by unit, and those of the one-page run on the pages      *)
(* joined by a blank line.  Stated as claimed; a page without characters   *)
(* in front of the first paragraph leaves an empty unit behind.            *)
(***************************************************************************)
PageBoundariesIrrelevant ==
  (Returned /\ max_chars >= 1 /\ ParagraphStream(pages) # <<>>) =>
    /\ chunks = pack_all(<<>>, ParagraphStream(pages), max_chars)
    /\ chunks = build_result(<<JoinParagraphs(pages)>>, max_chars)

(***************************************************************************)
(* C26  Chunk well-formedness: with max_chars >= 1 every chunk of every    *)
(* reachable state is non-empty and is the blank-line join of non-empty    *)
(* units.  Stated as claimed; line 91 feeds the placeholder of a page      *)
(* without paragraph to the packer.                                        *)
(***************************************************************************)
ChunkWellFormed ==
  max_chars >= 1 =>
    \A i \in DOMAIN chunks :
      /\ chunks[i] # ""
      /\ \A k \in DOMAIN Units(chunks[i]) : Units(chunks[i])[k] # ""

(***************************************************************************)
(* C27  Carry invariant: after every page the buffer is empty or one       *)
(* trimmed paragraph, namely the last paragraph of the merged text of that *)
(* page; it is non-empty once a page has held a paragraph, and that last   *)
(* paragraph is the one the final flush feeds.                             *)
(***************************************************************************)
LastOrEmpty(paras) == IF paras = <<>> THEN "" ELSE Last(paras)

CarryInvariant ==
  (pc \in {"pages", "flush", "save"} /\ pages # <<>>) =>
    LET stream == ParagraphStream(pages)
        carried == LastOrEmpty(ParagraphStream(Front(pages)))
    IN  /\ buffer = "" \/ split_paragraphs(buffer) = <<buffer>>
        /\ ~HasBlankLine(buffer)
        /\ buffer = LastOrEmpty(split_paragraphs(MergedText(carried, Last(pages))))
        /\ buffer = LastOrEmpty(stream)
        /\ stream # <<>> => buffer # ""
        /\ (Returned /\ stream # <<>>) => (fed # <<>> /\ Last(fed) = Last(stream))

CarryInvariantWitness ==
  /\ pc = "flush"
  /\ pages = <<"ab", "", "">>
  /\ buffer = "ab"

(***************************************************************************)
(* scripts/runChain.py: run_chain.  A workflow file is what open and       *)
(* json.load make of it; a step of the chain is what the checks of lines   *)
(* 28-45 make of it; the exit of a script is chosen when it runs.          *)
(***************************************************************************)
\* the workflow file: readable with a chain, absent, not JSON, without 'chain'
WorkflowKinds == {"chain", "not_found", "invalid_json", "no_chain_key"}

\* a step: complete with its script in place, without a required key, with a
\* script path that does not exist, or not a mapping at all
StepKinds == {"valid", "missing_key", "no_script", "not_a_mapping"}

\* subprocess.run(check=True): exit status 0, CalledProcessError, another exception
ExitKinds == {"zero", "nonzero", "exception"}

Chains == UNION {[1..n -> StepKinds] : n \in 0..MaxSteps}

InitChain ==
  /\ ChunkerOff
  /\ \E workflow \in WorkflowKinds : \E chain \in Chains :
       /\ workflow # "chain" => chain = <<>>
       /\ runner = [pc |-> "call", workflow |-> workflow, chain |-> chain,
                    i |-> 0, started |-> <<>>, exits |-> <<>>,
                    result |-> "none"]
  /\ splitter = Idle
  /\ segmenter = Idle
  /\ translator = Idle

\* lines 11-21 and 90-98: open and parse the file, take workflow['chain']
LoadWorkflow ==
  /\ runner.pc = "call"
  /\ runner' = IF runner.workflow = "chain"
               THEN [runner EXCEPT !.pc = "loop"]
               ELSE [runner EXCEPT !.pc = "return", !.result = "False"]
  /\ UNCHANGED <<chunker, splitter, segmenter, translator>>

\* lines 24-49: the next step of the chain, its required keys and its script;
\* a step that is no mapping raises at line 30 and line 96 returns False
CheckStep ==
  /\ runner.pc = "loop"
  /\ runner.i < Len(runner.chain)
  /\ runner' = IF runner.chain[runner.i + 1] = "valid"
               THEN [runner EXCEPT !.pc = "run",
                                   !.started = Append(@, runner.i + 1)]
               ELSE [runner EXCEPT !.pc = "return", !.result = "False"]
  /\ UNCHANGED <<chunker, splitter, segmenter, translator>>

\* RunStep that does not look at the exit status (check=False)
RunStep_unchecked ==
  /\ runner.pc = "run"
  /\ \E exit \in ExitKinds :
       runner' = IF exit \in {"zero", "nonzero"}
                 THEN [runner EXCEPT !.pc = "loop", !.i = @ + 1,
                                     !.exits = Append(@, exit)]
                 ELSE [runner EXCEPT !.pc = "return", !.result = "False",
                                     !.exits = Append(@, exit)]
  /\ UNCHANGED <<chunker, splitter, segmenter, translator>>

\* lines 52-85: run the script and wait for it; a non-zero exit status or any
\* other exception returns False
RunStep ==
  /\ runner.pc = "run"
  /\ \E exit \in ExitKinds :
       runner' = IF exit = "zero"
                 THEN [runner EXCEPT !.pc = "loop", !.i = @ + 1,
                                     !.exits = Append(@, exit)]
                 ELSE [runner EXCEPT !.pc = "return", !.result = "False",
                                     !.exits = Append(@, exit)]
  /\ UNCHANGED <<chunker, splitter, segmenter, translator>>

\* lines 87-88: the loop is over
ChainDone ==
  /\ runner.pc = "loop"
  /\ runner.i = Len(runner.chain)
  /\ runner' = [runner EXCEPT !.pc = "return", !.result = "True"]
  /\ UNCHANGED <<chunker, splitter, segmenter, translator>>

NextChain == LoadWorkflow \/ CheckStep \/ RunStep \/ ChainDone

SpecChain == InitChain /\ [][NextChain]_vars

(***************************************************************************)
(* C29  run_chain runs the steps one at a time in list order and stops at  *)
(* the first failing step: a step is started only after all steps before   *)
(* it have exited with status 0, nothing is started after a failure, and   *)
(* the return value is True exactly when every step of the chain was       *)
(* started and exited with status 0.                                       *)
(***************************************************************************)
AllZero(exits) == \A k \in DOMAIN exits : exits[k] = "zero"

StopsAtFirstFailure ==
  runner.workflow = "chain" =>
    /\ \A k \in DOMAIN runner.started : runner.started[k] = k
    /\ Len(runner.started) <= Len(runner.chain)
    /\ Len(runner.exits) <= Len(runner.started)
    /\ Len(runner.started) <= Len(runner.exits) + 1
    /\ Len(runner.started) = Len(runner.exits) + 1 =>
         (runner.pc = "run" /\ AllZero(runner.exits))
    /\ \A k \in 1..(Len(runner.exits) - 1) : runner.exits[k] = "zero"
    /\ (runner.exits # <<>> /\ Last(runner.exits) # "zero") =>
         (runner.pc = "return" /\ runner.result = "False")
    /\ runner.pc = "return" =>
         (runner.result = "True" <=>
            /\ Len(runner.started) = Len(runner.chain)
            /\ Len(runner.exits) = Len(runner.chain)
            /\ AllZero(runner.exits))
    /\ runner.pc # "return" => runner.result = "none"

StopsAtFirstFailureWitness ==
  /\ runner.pc = "return"
  /\ runner.result = "False"
  /\ Len(runner.chain) = 3
  /\ runner.chain[3] = "valid"
  /\ runner.started = <<1, 2>>
  /\ runner.exits = <<"zero", "nonzero">>

(***************************************************************************)
(* scripts/ai_translator/ollama.py: OllamaTranslator.translate_text.  The  *)
(* outcome of every request is chosen when it is sent.                     *)
(***************************************************************************)
\* requests.post and the reading of its answer, lines 54-68:
\*   ok                 status 200, the body is a JSON object whose "response"
\*                      is a string or is absent
\*   status             a status other than 200
\*   request_exception  requests.exceptions.RequestException
\*   not_json           status 200, the body is not JSON: response.json() raises
\*   not_object         status 200, the body is JSON but no object with a string
\*                      "response": result.get or .strip raises AttributeError
ResponseKinds == {"ok", "status", "request_exception", "not_json", "not_object"}

RECURSIVE Pow2(_)
Pow2(k) == IF k = 0 THEN 1 ELSE 2 * Pow2(k - 1)

InitTranslate ==
  /\ ChunkerOff
  /\ \E max_retries \in 0..MaxRetries :
       translator = [pc |-> "loop", max_retries |-> max_retries, attempt |-> 0,
                     sent |-> <<>>, waits |-> <<>>, result |-> "none"]
  /\ splitter = Idle
  /\ segmenter = Idle
  /\ runner = Idle

\* lines 52-68: one request of the loop and the reading of its answer.  The
\* exception of response.json() on a body that is not JSON is a
\* RequestException in some versions of the library and a ValueError in
\* others: line 67 catches the first, the second leaves the call.
Attempt ==
  /\ translator.pc = "loop"
  /\ translator.attempt < translator.max_retries
  /\ \E outcome \in ResponseKinds :
       \E next \in CASE outcome = "ok" -> {"returned"}
                     [] outcome \in {"status", "request_exception"} -> {"backoff"}
                     [] outcome = "not_json" -> {"backoff", "error"}
                     [] outcome = "not_object" -> {"error"} :
         translator' =
           IF next = "backoff"
           THEN [translator EXCEPT !.pc = "backoff", !.sent = Append(@, outcome)]
           ELSE [translator EXCEPT !.pc = "return", !.sent = Append(@, outcome),
                                   !.result = next]
  /\ UNCHANGED <<chunker, splitter, segmenter, runner>>

\* Backoff that also waits after the last attempt
Backoff_always_waits ==
  /\ translator.pc = "backoff"
  /\ translator' =
       [translator EXCEPT
          !.pc = "loop",
          !.attempt = @ + 1,
          !.waits = Append(@, Pow2(translator.attempt))]
  /\ UNCHANGED <<chunker, splitter, segmenter, runner>>

\* lines 70-73: the wait before the next attempt, if there is one
Backoff ==
  /\ translator.pc = "backoff"
  /\ translator' =
       [translator EXCEPT
          !.pc = "loop",
          !.attempt = @ + 1,
          !.waits = IF translator.attempt < translator.max_retries - 1
                    THEN Append(@, Pow2(translator.attempt)) ELSE @]
  /\ UNCHANGED <<chunker, splitter, segmenter, runner>>

\* line 75: the loop is over, raise Exception("Translation failed ...")
Exhausted ==
  /\ translator.pc = "loop"
  /\ translator.attempt >= translator.max_retries
  /\ translator' = [translator EXCEPT !.pc = "return", !.result = "failed"]
  /\ UNCHANGED <<chunker, splitter, segmenter, runner>>

NextTranslate == Attempt \/ Backoff \/ Exhausted

SpecTranslate == InitTranslate /\ [][NextTranslate]_vars

\* the call is sequential code: it takes its next step as long as it has one
\* (requests.post returns or raises within its timeout, time.sleep returns)
SpecTranslateFair == SpecTranslate /\ WF_vars(NextTranslate)

(***************************************************************************)
(* C30  Bounded retry: at most max_retries requests are sent; the call     *)
(* returns at the first request answered with status 200 and sends none    *)
(* after it; it raises the failure exception exactly when all max_retries  *)
(* requests failed; a wait of 2^k seconds follows the failed attempt k     *)
(* only when another attempt remains.  Stated as claimed; an answer with   *)
(* status 200 whose body cannot be read does not make the call return.     *)
(***************************************************************************)
Answered200(outcome) == outcome \in {"ok", "not_json", "not_object"}

BoundedRetry ==
  LET t == translator
  IN  /\ Len(t.sent) <= t.max_retries
      /\ \A k \in DOMAIN t.sent :
           Answered200(t.sent[k]) =>
             (k = Len(t.sent) /\ t.pc = "return" /\ t.result = "returned")
      /\ t.result = "returned" =>
           (t.sent # <<>> /\ Answered200(Last(t.sent)))
      /\ t.pc = "return" =>
           (t.result = "failed" <=>
              /\ Len(t.sent) = t.max_retries
              /\ \A k \in DOMAIN t.sent : ~Answered200(t.sent[k]))
      /\ \A k \in DOMAIN t.waits : t.waits[k] = Pow2(k - 1)
      /\ Len(t.waits) <= t.attempt
      /\ Len(t.waits) < t.max_retries \/ t.waits = <<>>
      /\ t.pc = "loop" =>
           Len(t.waits) = (IF t.attempt < t.max_retries THEN t.attempt
                           ELSE IF t.max_retries = 0 THEN 0
                           ELSE t.max_retries - 1)
      /\ t.attempt <= t.max_retries

\* The statement of C30 for every answer a request can get: the call returns
\* at the first answer with status 200 and a readable body; a body that is no
\* JSON object with a string "response" makes another exception leave the call
\* at once; a body that is not JSON does the same or counts as a failed
\* attempt; the failure exception is raised exactly when all max_retries
\* attempts failed; the waits are 1, 2, 4, ... between attempts only; the call
\* terminates.
Retried(outcome) == outcome \in {"status", "request_exception", "not_json"}

RetryInvariant ==
  LET t == translator
  IN  /\ Len(t.sent) <= t.max_retries
      /\ \A k \in 1..(Len(t.sent) - 1) : Retried(t.sent[k])
      /\ t.pc = "return" =>
           /\ t.result = "returned" <=> (t.sent # <<>> /\ Last(t.sent) = "ok")
           /\ t.result = "failed" <=>
                /\ Len(t.sent) = t.max_retries
                /\ t.attempt >= t.max_retries
                /\ \A k \in DOMAIN t.sent : Retried(t.sent[k])
           /\ t.result = "error" <=>
                /\ t.sent # <<>>
                /\ Last(t.sent) \in {"not_json", "not_object"}
                /\ t.attempt = Len(t.sent) - 1
      /\ t.pc # "return" =>
           (t.result = "none" /\ \A k \in DOMAIN t.sent : Retried(t.sent[k]))
      /\ \A k \in DOMAIN t.waits : t.waits[k] = Pow2(k - 1)
      /\ Len(t.waits) < t.max_retries \/ t.waits = <<>>
      /\ t.pc = "loop" =>
           Len(t.waits) = (IF t.attempt < t.max_retries THEN t.attempt
                           ELSE IF t.max_retries = 0 THEN 0
                           ELSE t.max_retries - 1)
      /\ t.pc = "backoff" => Len(t.waits) = t.attempt
      /\ t.attempt <= t.max_retries

BoundedRetryReadable == []RetryInvariant /\ <>(translator.pc = "return")

BoundedRetryReadableWitness ==
  /\ translator.pc = "return"
  /\ translator.result = "returned"
  /\ translator.max_retries = 3
  /\ translator.sent = <<"status", "not_json", "ok">>
  /\ translator.waits = <<1, 2>>

====
